---- MODULE Spec2Model ----
(***************************************************************************)
(* The sliding-tile puzzle of kroche98/fifteen: the Puzzle class of        *)
(* fifteen.js and of its two later versions (part_000, part_001).          *)
(*                                                                         *)
(* fifteen.js and part_000 hold the same Puzzle code (a slide moves one    *)
(* tile next to the blank; the blank's coordinates are cached in           *)
(* _blank_x/_blank_y).  part_001 finds the blank with indexOf and slides   *)
(* a whole line of tiles.  JavaScript arrays are functions on 0..len-1.    *)
(***************************************************************************)
EXTENDS Integers, Sequences, FiniteSets, TLC

\* the three versions of the program
Variants == {"fifteen.js", "part_000", "part_001"}

\* board sizes explored
Sizes == {2, 3, 4}

\* sizes whose randomize() is explored at every call
ShuffleSizes == {2}

\* sizes whose randomize() is explored as the first call on a new puzzle only
FirstShuffleSizes == {3}

\* calls (slide, randomize) made on one puzzle since its construction
MaxCalls == 4

\* passes of the do-while loop of one randomize() call
MaxPasses == 2

\* draw sequences explored for one pass: all of them when a shuffle has no
\* more than this many, else about a quarter of this many, evenly spread
MaxDrawSeqs == 24

\* boards on which solvable() is probed from a new puzzle
MaxProbes == 500

\* longest array whose shuffles are all enumerated
MaxShuffleLen == 5

\* the value of a field or of a result that does not exist
Undefined == "undefined"

VARIABLES
    variant,      \* which version of the program runs
    size,         \* Puzzle.size
    board,        \* Puzzle.board
    solvedBoard,  \* Puzzle.solvedBoard (fifteen.js, part_000)
    _blank_val,   \* Puzzle._blank_val (blank_val in part_001)
    _blank_x,     \* Puzzle._blank_x (fifteen.js, part_000)
    _blank_y,     \* Puzzle._blank_y (fifteen.js, part_000)
    op,           \* the last call made: "new", "randomize" or "slide"
    arg,          \* its argument
    ret,          \* what it returned
    calls,        \* calls made since the puzzle was constructed
    pc,           \* where a running randomize() is: "do" before the loop body,
                  \* "while" before the loop test; "idle" when no call runs
    puzzleDisplay,  \* the PuzzleDisplay object and the elements of its frame
    timeouts,     \* setTimeout callbacks that have not run yet
    alerted       \* whether the last step called alert()

vars == <<variant, size, board, solvedBoard, _blank_val, _blank_x, _blank_y,
          op, arg, ret, calls, pc, puzzleDisplay, timeouts, alerted>>

\* the Puzzle object
This ==
    [variant |-> variant, size |-> size, board |-> board,
     solvedBoard |-> solvedBoard, _blank_val |-> _blank_val,
     _blank_x |-> _blank_x, _blank_y |-> _blank_y]

\* the versions that cache the blank's coordinates
Caches(v) == v \in {"fifteen.js", "part_000"}

-----------------------------------------------------------------------------
(* JavaScript arithmetic and arrays *)

\* a % b of JavaScript: the sign of the result is the sign of a
JsRem(a, b) ==
    LET m == IF b < 0 THEN -b ELSE b
    IN  IF a >= 0 THEN a % m ELSE -((-a) % m)

\* Math.floor(a / b), b not 0
Floor(a, b) == IF b > 0 THEN a \div b ELSE (-a) \div (-b)

\* arr[k]: undefined where the array has no such index
at(arr, k) == IF k \in DOMAIN arr THEN arr[k] ELSE Undefined

\* arr[k] = v: an index the array does not have is added to it
put(arr, k, v) == IF k \in DOMAIN arr THEN [arr EXCEPT ![k] = v] ELSE (k :> v) @@ arr

\* arr.length
length(arr) == Cardinality(DOMAIN arr)

\* arr.indexOf(v)
indexOf(arr, v) ==
    IF \E k \in DOMAIN arr : arr[k] = v
    THEN CHOOSE k \in DOMAIN arr :
            /\ arr[k] = v
            /\ \A m \in DOMAIN arr : arr[m] = v => k <= m
    ELSE -1

\* arr.push(v)
push(arr, v) ==
    [k \in 0..length(arr) |-> IF k = length(arr) THEN v ELSE arr[k]]

\* arr.splice(k, 1)
splice(arr, k) ==
    [m \in 0..(length(arr) - 2) |-> IF m < k THEN arr[m] ELSE arr[m + 1]]

\* [0, 1, ..., n-1]
keys(n) == [k \in 0..(n - 1) |-> k]

RECURSIVE Sum(_, _)
\* arr.reduce((accum, elem) => accum + elem, 0) over the first n cells
Sum(arr, n) == IF n = 0 THEN 0 ELSE Sum(arr, n - 1) + arr[n - 1]

-----------------------------------------------------------------------------
(* shuffle(arr): each pass of the loop draws randomIndex in 0..arr.length-1 *)

RECURSIVE Factorial(_)
Factorial(n) == IF n = 0 THEN 1 ELSE n * Factorial(n - 1)

\* the sequences of randomIndex values one shuffle of n cells can draw, numbered:
\* the k-th draw is in 0..n-k, as Math.floor(Math.random() * arr.length) is
DrawCodes(n) == 0..(Factorial(n) - 1)

\* at most `most` of these numbers, evenly spread
SampleCodes(n, most) ==
    LET stride == 1 + ((Factorial(n) - 1) \div most)
    IN  {k * stride : k \in 0..((Factorial(n) - 1) \div stride)}

\* the numbers of the draw sequences explored for one pass of randomize()
ExploredCodes(n) ==
    SampleCodes(n, IF Factorial(n) <= MaxDrawSeqs
                   THEN Factorial(n)
                   ELSE 1 + MaxDrawSeqs \div 4)

\* mutant: the last index of arr is never drawn (arr.length - 1 for arr.length)
Draws_neverLast(n, code) ==
    [k \in 1..n |-> IF n = k THEN 0 ELSE (code \div Factorial(n - k)) % (n - k)]

Draws(n, code) ==
    [k \in 1..n |-> (code \div Factorial(n - k)) % (n - k + 1)]

RECURSIVE shuffleLoop(_, _, _)
shuffleLoop(arr, shuffledArr, draws) ==
    IF length(arr) # 0
    THEN LET randomIndex == Head(draws)
         IN  shuffleLoop(splice(arr, randomIndex),
                         push(shuffledArr, arr[randomIndex]),
                         Tail(draws))
    ELSE shuffledArr

RECURSIVE shuffleIterations(_, _)
\* the passes the loop of shuffle(arr) makes before arr.length is 0
shuffleIterations(arr, draws) ==
    IF length(arr) # 0
    THEN 1 + shuffleIterations(splice(arr, Head(draws)), Tail(draws))
    ELSE 0

shuffle(arr, draws) == shuffleLoop(arr, <<>>, draws)

-----------------------------------------------------------------------------
(* class Puzzle *)

\* mutant: the blank value is one past the last tile
Puzzle_blankPastEnd(v, n) ==
    [variant |-> v,
     size |-> n,
     board |-> keys(n * n),
     solvedBoard |-> IF Caches(v) THEN keys(n * n) ELSE Undefined,
     _blank_val |-> n * n,
     _blank_x |-> IF Caches(v) THEN n - 1 ELSE Undefined,
     _blank_y |-> IF Caches(v) THEN n - 1 ELSE Undefined]

Puzzle(v, n) ==
    [variant |-> v,
     size |-> n,
     board |-> keys(n * n),
     solvedBoard |-> IF Caches(v) THEN keys(n * n) ELSE Undefined,
     _blank_val |-> n * n - 1,
     _blank_x |-> IF Caches(v) THEN n - 1 ELSE Undefined,
     _blank_y |-> IF Caches(v) THEN n - 1 ELSE Undefined]

_x(self, square) == JsRem(square, self.size)

_y(self, square) == Floor(square, self.size)

\* mutant: column and row exchanged
_i_transposed(self, x, y) == self.size * x + y

_i(self, x, y) == self.size * y + x

_blank_i(self) == indexOf(self.board, self._blank_val)

\* mutant: the blank is counted like a tile
inversions_countsBlank(self) ==
    LET arr == self.board
        counts == [idx1 \in DOMAIN arr |->
                     Cardinality({idx2 \in DOMAIN arr :
                                    idx2 > idx1 /\ arr[idx2] < arr[idx1]})]
    IN  Sum(counts, length(arr))

inversions(self) ==
    LET arr == self.board
        counts == [idx1 \in DOMAIN arr |->
                     IF arr[idx1] = self.size * self.size - 1
                     THEN 0
                     ELSE Cardinality({idx2 \in DOMAIN arr :
                                         idx2 > idx1 /\ arr[idx2] < arr[idx1]})]
    IN  Sum(counts, length(arr))

\* mutant: the row is read from the cached column
solvableRow_column(self) ==
    IF Caches(self.variant) THEN self._blank_x ELSE _x(self, _blank_i(self))

\* mutant: the row is counted from the bottom edge, from 0
solvableRow_fromBottom(self) ==
    IF Caches(self.variant)
    THEN self.size - 1 - self._blank_y
    ELSE self.size - 1 - _y(self, _blank_i(self))

\* the row of the blank that solvable() reads
solvableRow(self) ==
    IF Caches(self.variant) THEN self._blank_y ELSE _y(self, _blank_i(self))

\* mutant: the blank's row is tested for being even
solvable_flipped(self) ==
    \/ (self.size % 2 = 1) /\ (inversions(self) % 2 = 0)
    \/ (self.size % 2 = 0)
       /\ ((solvableRow(self) % 2 = 0) <=> (inversions(self) % 2 = 0))

\* mutant: the blank's row is taken into account whatever the size
solvable_ignoresSize(self) ==
    (solvableRow(self) % 2 = 1) <=> (inversions(self) % 2 = 0)

\* mutant: for even size the two parities are required instead of compared
solvable_bothParities(self) ==
    \/ (self.size % 2 = 1) /\ (inversions(self) % 2 = 0)
    \/ (self.size % 2 = 0)
       /\ ((solvableRow(self) % 2 = 1) /\ (inversions(self) % 2 = 0))

\* mutant: both branches test for an odd size
solvable_oddSizeTwice(self) ==
    \/ (self.size % 2 = 1) /\ (inversions(self) % 2 = 0)
    \/ (self.size % 2 = 1)
       /\ ((solvableRow(self) % 2 = 1) <=> (inversions(self) % 2 = 0))

solvable(self) ==
    \/ (self.size % 2 = 1) /\ (inversions(self) % 2 = 0)
    \/ (self.size % 2 = 0)
       /\ ((solvableRow(self) % 2 = 1) <=> (inversions(self) % 2 = 0))

\* mutant: the cached coordinates of the blank are not updated
randomizeBody_staleBlank(self, draws) ==
    [self EXCEPT !.board = shuffle(self.board, draws)]

\* one pass of the body of the do-while loop of randomize()
randomizeBody(self, draws) ==
    LET shuffled == shuffle(self.board, draws)
        blank_pos == indexOf(shuffled, self._blank_val)
    IN  IF Caches(self.variant)
        THEN [self EXCEPT !.board = shuffled,
                          !._blank_x = _x(self, blank_pos),
                          !._blank_y = _y(self, blank_pos)]
        ELSE [self EXCEPT !.board = shuffled]

\* mutant: the loop does not test solvable()
randomizeLoop_noRetry(entering, n, passes) ==
    {randomizeBody(s, Draws(n, code)) : s \in entering, code \in ExploredCodes(n)}

RECURSIVE randomizeLoop(_, _, _)
\* the do-while loop of randomize() on a board of n cells, entered in one of
\* the puzzles of `entering`: the puzzles it can exit with, in at most
\* `passes` passes
randomizeLoop(entering, n, passes) ==
    LET bodies == {randomizeBody(s, Draws(n, code)) :
                     s \in entering, code \in ExploredCodes(n)}
    IN  {s \in bodies : solvable(s)}
        \cup (IF passes > 1 /\ \E s \in bodies : ~solvable(s)
              THEN randomizeLoop({s \in bodies : ~solvable(s)}, n, passes - 1)
              ELSE {})

randomize(self) == randomizeLoop({self}, length(self.board), MaxPasses)

\* mutant: the blank is not written into the cell of the slid tile
slide_adjacent_noBlankWrite(self, id) ==
    LET square_x == _x(self, id)
        square_y == _y(self, id)
        legal == (square_x - self._blank_x) * (square_x - self._blank_x)
                 + (square_y - self._blank_y) * (square_y - self._blank_y) = 1
        swapped == [self.board EXCEPT
                      ![_i(self, self._blank_x, self._blank_y)] = self.board[id]]
    IN  IF legal
        THEN [self |-> [self EXCEPT !.board = swapped,
                                    !._blank_x = square_x,
                                    !._blank_y = square_y],
              ret |-> TRUE]
        ELSE [self |-> self, ret |-> FALSE]

\* mutant: a distance of 0 is legal too
slide_adjacent_selfLegal(self, id) ==
    LET square_x == _x(self, id)
        square_y == _y(self, id)
        legal == (square_x - self._blank_x) * (square_x - self._blank_x)
                 + (square_y - self._blank_y) * (square_y - self._blank_y) <= 1
        swapped == [self.board EXCEPT
                      ![_i(self, self._blank_x, self._blank_y)] = self.board[id],
                      ![id] = self._blank_val]
    IN  IF legal
        THEN [self |-> [self EXCEPT !.board = swapped,
                                    !._blank_x = square_x,
                                    !._blank_y = square_y],
              ret |-> TRUE]
        ELSE [self |-> self, ret |-> FALSE]

\* mutant: the distance is measured between the array indexes
slide_adjacent_linear(self, id) ==
    LET square_x == _x(self, id)
        square_y == _y(self, id)
        blank_pos == _i(self, self._blank_x, self._blank_y)
        legal == (id - blank_pos) \in {1, -1, self.size, -self.size}
        swapped == [self.board EXCEPT
                      ![blank_pos] = self.board[id],
                      ![id] = self._blank_val]
    IN  IF legal
        THEN [self |-> [self EXCEPT !.board = swapped,
                                    !._blank_x = square_x,
                                    !._blank_y = square_y],
              ret |-> TRUE]
        ELSE [self |-> self, ret |-> FALSE]

\* slide(id) of fifteen.js and part_000
slide_adjacent(self, id) ==
    LET square_x == _x(self, id)
        square_y == _y(self, id)
        legal == (square_x - self._blank_x) * (square_x - self._blank_x)
                 + (square_y - self._blank_y) * (square_y - self._blank_y) = 1
        swapped == put(put(self.board, _i(self, self._blank_x, self._blank_y),
                           at(self.board, id)),
                       id, self._blank_val)
    IN  IF legal
        THEN [self |-> [self EXCEPT !.board = swapped,
                                    !._blank_x = square_x,
                                    !._blank_y = square_y],
              ret |-> TRUE]
        ELSE [self |-> self, ret |-> FALSE]

\* _swap(i1, i2) of part_001
_swap(arr, i1, i2) == put(put(arr, i1, at(arr, i2)), i2, at(arr, i1))

RECURSIVE slideLoop(_, _, _, _)
\* the four while loops of slide(i) of part_001: j walks from the blank to i
slideLoop(arr, j, i, step) ==
    IF (step < 0 /\ j > i) \/ (step > 0 /\ j < i)
    THEN slideLoop(_swap(arr, j, j + step), j + step, i, step)
    ELSE arr

\* mutant: the clicked tile is swapped with the blank, the tiles between stay
slide_chain_singleSwap(self, i) ==
    LET x == _x(self, i)
        y == _y(self, i)
        blank_i == _blank_i(self)
        blank_x == _x(self, blank_i)
        blank_y == _y(self, blank_i)
        moved == _swap(self.board, blank_i, i)
    IN  IF x = blank_x /\ y = blank_y
        THEN [self |-> self, ret |-> FALSE]
        ELSE IF x = blank_x \/ y = blank_y
        THEN [self |-> [self EXCEPT !.board = moved], ret |-> TRUE]
        ELSE [self |-> self, ret |-> FALSE]

\* mutant: the test for a click on the blank itself is missing
slide_chain_blankLegal(self, i) ==
    LET x == _x(self, i)
        y == _y(self, i)
        blank_i == _blank_i(self)
        blank_x == _x(self, blank_i)
        blank_y == _y(self, blank_i)
        moved(step) ==
            IF blank_i > i THEN slideLoop(self.board, blank_i, i, -step)
            ELSE IF blank_i < i THEN slideLoop(self.board, blank_i, i, step)
            ELSE self.board
    IN  IF x = blank_x
        THEN [self |-> [self EXCEPT !.board = moved(self.size)], ret |-> TRUE]
        ELSE IF y = blank_y
        THEN [self |-> [self EXCEPT !.board = moved(1)], ret |-> TRUE]
        ELSE [self |-> self, ret |-> FALSE]

\* slide(i) of part_001
slide_chain(self, i) ==
    LET x == _x(self, i)
        y == _y(self, i)
        blank_i == _blank_i(self)
        blank_x == _x(self, blank_i)
        blank_y == _y(self, blank_i)
        moved(step) ==
            IF blank_i > i THEN slideLoop(self.board, blank_i, i, -step)
            ELSE IF blank_i < i THEN slideLoop(self.board, blank_i, i, step)
            ELSE self.board
    IN  IF x = blank_x /\ y = blank_y
        THEN [self |-> self, ret |-> FALSE]
        ELSE IF x = blank_x
        THEN [self |-> [self EXCEPT !.board = moved(self.size)], ret |-> TRUE]
        ELSE IF y = blank_y
        THEN [self |-> [self EXCEPT !.board = moved(1)], ret |-> TRUE]
        ELSE [self |-> self, ret |-> FALSE]

slide(self, id) ==
    IF Caches(self.variant) THEN slide_adjacent(self, id) ELSE slide_chain(self, id)

\* mutant: one cell in place is enough (some instead of every)
solved_some(self) ==
    LET solvedState == IF Caches(self.variant) THEN self.solvedBoard
                       ELSE keys(self.size * self.size)
    IN  \E idx \in DOMAIN self.board : self.board[idx] = solvedState[idx]

solved(self) ==
    LET solvedState == IF Caches(self.variant) THEN self.solvedBoard
                       ELSE keys(self.size * self.size)
    IN  \A idx \in DOMAIN self.board : self.board[idx] = solvedState[idx]

-----------------------------------------------------------------------------
(* the display: class PuzzleDisplay, the elements it creates in the document
   and the style functions; a display is the record
   [tileWidth, styleSpecifier, squares, puzzleFrame, divs] *)

\* const TILE_WIDTH = 50
TILE_WIDTH == 50

\* the style functions of the program
Styles == {"redWhiteStyle", "grayStyle", "image1Style", "image2Style"}

\* the string JavaScript makes of the integer n (-0 is written 0)
String(n) == ToString(n)

\* the number JavaScript makes of the string s, the string of an array index
Number(s) == CHOOSE n \in UNION {0..(m * m) : m \in Sizes} : ToString(n) = s

\* n + "px"
px(n) == String(n) \o "px"

\* 100/n + "%"
Percent(n) ==
    CASE n = 1 -> "100%"
      [] n = 2 -> "50%"
      [] n = 3 -> "33.333333333333336%"
      [] n = 4 -> "25%"
      [] n = 5 -> "20%"
      [] n = 0 -> "Infinity%"
      [] n = -1 -> "-100%"
      [] n = -2 -> "-50%"

\* element.style after style.cssText = ''
NoStyle ==
    [order |-> "", height |-> "", width |-> "", backgroundSize |-> "",
     backgroundPositionX |-> "", backgroundPositionY |-> ""]

\* document.createElement('div'); firstChild is the element appended to it
createElement ==
    [id |-> "", data_id |-> Undefined, className |-> "", textContent |-> "",
     style |-> NoStyle, firstChild |-> Undefined]

redWhiteStyle(tileId, tileDiv, tileWidth, puzzle) ==
    LET className ==
            IF JsRem(puzzle.size, 2) = 0
            THEN IF JsRem(tileId + _y(puzzle, tileId), 2) = 0
                 THEN "square tile red" ELSE "square tile white"
            ELSE IF JsRem(tileId, 2) = 0
                 THEN "square tile red" ELSE "square tile white"
    IN  [tileDiv EXCEPT !.className = className,
                        !.textContent = String(tileId + 1)]

grayStyle(tileId, tileDiv, tileWidth, puzzle) ==
    [tileDiv EXCEPT !.className = "square tile gray",
                    !.textContent = String(tileId + 1)]

image1Style(tileId, tileDiv, tileWidth, puzzle) ==
    [tileDiv EXCEPT
        !.className = "square tile image1",
        !.style.backgroundSize =
            px(tileWidth * puzzle.size) \o " " \o px(tileWidth * puzzle.size),
        !.style.backgroundPositionX = px(_x(puzzle, tileId) * (-tileWidth)),
        !.style.backgroundPositionY = px(_y(puzzle, tileId) * (-tileWidth))]

image2Style(tileId, tileDiv, tileWidth, puzzle) ==
    [tileDiv EXCEPT
        !.className = "square tile image2",
        !.style.backgroundSize =
            px(tileWidth * puzzle.size) \o " " \o px(tileWidth * puzzle.size),
        !.style.backgroundPositionX = px(_x(puzzle, tileId) * (-tileWidth)),
        !.style.backgroundPositionY = px(_y(puzzle, tileId) * (-tileWidth)),
        !.textContent = String(tileId + 1)]

\* this.styleSpecifier(tileId, tileDiv, tileWidth, puzzle)
styleSpecifier(name, tileId, tileDiv, tileWidth, puzzle) ==
    CASE name = "redWhiteStyle" -> redWhiteStyle(tileId, tileDiv, tileWidth, puzzle)
      [] name = "grayStyle" -> grayStyle(tileId, tileDiv, tileWidth, puzzle)
      [] name = "image1Style" -> image1Style(tileId, tileDiv, tileWidth, puzzle)
      [] name = "image2Style" -> image2Style(tileId, tileDiv, tileWidth, puzzle)

\* one pass of the loop of decorate() in fifteen.js and part_000: the element
\* squares[i] is cleared and styled as the piece board[i]
decorateSquare(display, puzzle, i) ==
    LET pieceVal == puzzle.board[i]
        cleared == [display.divs[display.squares[i]] EXCEPT
                       !.className = "", !.style = NoStyle, !.textContent = ""]
        styled == IF pieceVal = puzzle._blank_val
                  THEN [cleared EXCEPT !.className = "square blank"]
                  ELSE styleSpecifier(display.styleSpecifier, pieceVal, cleared,
                                      display.tileWidth, puzzle)
        sized == [styled EXCEPT !.style.height = Percent(puzzle.size),
                                !.style.width = Percent(puzzle.size)]
    IN  [display EXCEPT !.divs[display.squares[i]] = sized]

\* one pass of the loop of decorate() in part_001: the child of the container
\* squares[i] is cleared and styled as the piece i
decorateChild(display, puzzle, i) ==
    LET cleared == [display.divs[display.squares[i]].firstChild EXCEPT
                       !.className = "", !.style = NoStyle, !.textContent = ""]
        styled == IF i = puzzle._blank_val
                  THEN [cleared EXCEPT !.className = "square blank"]
                  ELSE styleSpecifier(display.styleSpecifier, i, cleared,
                                      display.tileWidth, puzzle)
        sized == [styled EXCEPT !.style.height = "100%", !.style.width = "100%"]
    IN  [display EXCEPT !.divs[display.squares[i]].firstChild = sized]

RECURSIVE decorateLoop(_, _, _)
\* for (let i = 0; i < this.squares.length; i++), from pass i on
decorateLoop(display, puzzle, i) ==
    IF i < length(display.squares)
    THEN decorateLoop(IF Caches(puzzle.variant)
                      THEN decorateSquare(display, puzzle, i)
                      ELSE decorateChild(display, puzzle, i),
                      puzzle, i + 1)
    ELSE display

\* decorate()
decorate(display, puzzle) == decorateLoop(display, puzzle, 0)

\* changeStyle(styleSpecifier)
changeStyle(display, puzzle, name) ==
    decorate([display EXCEPT !.styleSpecifier = name], puzzle)

\* new PuzzleDisplay(puzzle, containerDiv, tileWidth, styleSpecifier): the loop
\* over puzzle.board creates element k in its pass k and appends it to the
\* frame, whose children are puzzleFrame[1], puzzleFrame[2], ...
PuzzleDisplay(puzzle, tileWidth, name) ==
    LET squareDiv(k) ==
            [createElement EXCEPT !.id = "square" \o String(puzzle.board[k]),
                                  !.data_id = String(puzzle.board[k])]
        squareContainerDiv(k) ==
            [createElement EXCEPT !.style.order = String(puzzle.board[k]),
                                  !.style.height = Percent(puzzle.size),
                                  !.style.width = Percent(puzzle.size),
                                  !.firstChild = createElement]
        built ==
            [tileWidth |-> tileWidth,
             styleSpecifier |-> name,
             squares |-> [squareId \in {puzzle.board[k] : k \in DOMAIN puzzle.board}
                             |-> indexOf(puzzle.board, squareId)],
             puzzleFrame |-> [k \in 1..length(puzzle.board) |-> k - 1],
             divs |-> [k \in DOMAIN puzzle.board |->
                         IF Caches(puzzle.variant) THEN squareDiv(k)
                         ELSE squareContainerDiv(k)]]
    IN  decorate(built, puzzle)

\* document.getElementById(id): the first element of the frame with this id
getElementById(display, id) ==
    LET found == SelectSeq(display.puzzleFrame,
                           LAMBDA e : display.divs[e].id = id)
    IN  IF found = <<>> THEN Undefined ELSE Head(found)

\* the place of child e among children
childIndex(children, e) == CHOOSE k \in 1..Len(children) : children[k] = e

\* parent.insertBefore(newChild, refChild) on the children of parent
insertBefore(children, newChild, refChild) ==
    LET k == childIndex(children, refChild)
    IN  SubSeq(children, 1, k - 1) \o <<newChild>> \o SubSeq(children, k, Len(children))

\* parent.replaceChild(newChild, oldChild): newChild leaves the place it had
replaceChild(children, newChild, oldChild) ==
    LET others == SelectSeq(children, LAMBDA e : e # newChild)
    IN  [others EXCEPT ![childIndex(others, oldChild)] = newChild]

\* mutant: id and data-id are not swapped back
swapSquares_idsStay(display, square1Id, square2Id) ==
    LET square1 == getElementById(display, "square" \o String(square1Id))
        square2 == getElementById(display, "square" \o square2Id)
        squares == put(put(display.squares, square1Id, square2),
                       Number(square2Id), square1)
        placeholder1 == insertBefore(display.puzzleFrame, -1, square1)
        placeholder2 == insertBefore(placeholder1, -2, square2)
        replaced1 == replaceChild(placeholder2, square2, -1)
        replaced2 == replaceChild(replaced1, square1, -2)
    IN  [display EXCEPT !.squares = squares,
                        !.puzzleFrame = replaced2]

\* swapSquares(square1Id, square2Id) of fifteen.js, _swapSquares of part_000;
\* square1Id is a number and square2Id the string of a data-id; the two
\* placeholder elements are numbered -1 and -2
swapSquares(display, square1Id, square2Id) ==
    LET square1 == getElementById(display, "square" \o String(square1Id))
        square2 == getElementById(display, "square" \o square2Id)
        squares == put(put(display.squares, square1Id, square2),
                       Number(square2Id), square1)
        placeholder1 == insertBefore(display.puzzleFrame, -1, square1)
        placeholder2 == insertBefore(placeholder1, -2, square2)
        replaced1 == replaceChild(placeholder2, square2, -1)
        replaced2 == replaceChild(replaced1, square1, -2)
        tempId == display.divs[square1].data_id
        renamed1 == [display.divs EXCEPT
                        ![square1].id = "square" \o display.divs[square2].data_id,
                        ![square1].data_id = display.divs[square2].data_id]
        renamed2 == [renamed1 EXCEPT
                        ![square2].id = "square" \o tempId,
                        ![square2].data_id = tempId]
    IN  [display EXCEPT !.squares = squares,
                        !.puzzleFrame = replaced2,
                        !.divs = renamed2]

RECURSIVE updateDisplayLoop_byPlace(_, _, _)
\* mutant: the container of place i, not that of piece board[i], gets order i
updateDisplayLoop_byPlace(display, puzzle, i) ==
    IF i < length(puzzle.board)
    THEN updateDisplayLoop_byPlace(
             [display EXCEPT !.divs[display.squares[i]].style.order = String(i)],
             puzzle, i + 1)
    ELSE display

RECURSIVE updateDisplayLoop(_, _, _)
\* for (let i of this.puzzle.board.keys()) of updateDisplay(), from pass i on
updateDisplayLoop(display, puzzle, i) ==
    IF i < length(puzzle.board)
    THEN updateDisplayLoop(
             [display EXCEPT
                 !.divs[display.squares[puzzle.board[i]]].style.order = String(i)],
             puzzle, i + 1)
    ELSE display

\* updateDisplay() of part_001
updateDisplay(display, puzzle) == updateDisplayLoop(display, puzzle, 0)

\* move(clickedSquareId) of fifteen.js and part_000; clickedSquareId is the
\* data-id of the clicked element, a string that slide(id) uses as a number.
\* won: the win notification is asked for
move_squares(display, puzzle, clickedSquareId) ==
    LET blankSquareId == _i(puzzle, puzzle._blank_x, puzzle._blank_y)
        r == slide(puzzle, Number(clickedSquareId))
    IN  IF r.ret
        THEN [display |-> swapSquares(display, blankSquareId, clickedSquareId),
              self |-> r.self, ret |-> r.ret, won |-> solved(r.self)]
        ELSE [display |-> display, self |-> r.self, ret |-> r.ret, won |-> FALSE]

\* move(div) of part_001; div.style.order is a string that slide(i) uses as a
\* number
move_order(display, puzzle, div) ==
    LET r == slide(puzzle, Number(display.divs[div].style.order))
    IN  IF r.ret
        THEN [display |-> updateDisplay(display, r.self),
              self |-> r.self, ret |-> r.ret, won |-> solved(r.self)]
        ELSE [display |-> display, self |-> r.self, ret |-> r.ret, won |-> FALSE]

\* the click handler of element e of the frame
onclick(display, puzzle, e) ==
    IF Caches(puzzle.variant)
    THEN move_squares(display, puzzle, display.divs[e].data_id)
    ELSE move_order(display, puzzle, e)

\* what this.puzzle.randomize() can leave of each board of the sizes whose
\* shuffles are all explored, worked out once
RandomizeResults ==
    [v \in Variants |->
       [n \in ShuffleSizes |->
          [b \in Permutations(0..(n * n - 1)) |->
             randomize([Puzzle(v, n) EXCEPT !.board = b])]]]

\* randomize() of PuzzleDisplay: the puzzles and displays it can leave
displayRandomize(display, puzzle) ==
    {[self |-> s,
      display |-> IF Caches(s.variant) THEN decorate(display, s)
                  ELSE updateDisplay(display, s)] :
        s \in IF puzzle.size \in ShuffleSizes
              THEN RandomizeResults[puzzle.variant][puzzle.size][puzzle.board]
              ELSE randomize(puzzle)}

\* the sizes changeSize(n) is called with when n is any integer
AnySizes == {-1, 0, 1} \cup Sizes

\* the displays changeSize(n) builds, one for each version, size and style
FreshDisplays ==
    [v \in Variants |->
       [n \in AnySizes |->
          [name \in Styles |-> PuzzleDisplay(Puzzle(v, n), TILE_WIDTH, name)]]]

-----------------------------------------------------------------------------
(* the state machine *)

\* the fields of the puzzle become those of s
Becomes(s) ==
    /\ variant' = s.variant
    /\ size' = s.size
    /\ board' = s.board
    /\ solvedBoard' = s.solvedBoard
    /\ _blank_val' = s._blank_val
    /\ _blank_x' = s._blank_x
    /\ _blank_y' = s._blank_y

Init ==
    \E v \in Variants, n \in Sizes :
        /\ variant = v
        /\ size = n
        /\ board = Puzzle(v, n).board
        /\ solvedBoard = Puzzle(v, n).solvedBoard
        /\ _blank_val = Puzzle(v, n)._blank_val
        /\ _blank_x = Puzzle(v, n)._blank_x
        /\ _blank_y = Puzzle(v, n)._blank_y
        /\ op = "new"
        /\ arg = n
        /\ ret = Undefined
        /\ calls = 0
        /\ pc = "idle"
        /\ puzzleDisplay = FreshDisplays[v][n]["redWhiteStyle"]
        /\ timeouts = 0
        /\ alerted = FALSE

\* changeSize(n): puzzle = new Puzzle(n)
ChangeSize(n) ==
    /\ pc = "idle"
    /\ Becomes(Puzzle(variant, n))
    /\ puzzleDisplay' = FreshDisplays[variant][n][puzzleDisplay.styleSpecifier]
    /\ timeouts' = timeouts
    /\ alerted' = FALSE
    /\ op' = "new"
    /\ arg' = n
    /\ ret' = Undefined
    /\ calls' = 0
    /\ pc' = pc

\* puzzle.randomize()
Randomize ==
    /\ pc = "idle"
    /\ calls < MaxCalls
    /\ \/ size \in ShuffleSizes
       \/ size \in FirstShuffleSizes /\ op = "new"
    /\ \E s \in randomize(This) : Becomes(s)
    /\ op' = "randomize"
    /\ arg' = Undefined
    /\ ret' = Undefined
    /\ calls' = calls + 1
    /\ pc' = pc
    /\ UNCHANGED <<puzzleDisplay, timeouts, alerted>>

\* puzzle.slide(p)
Slide(p) ==
    /\ pc = "idle"
    /\ calls < MaxCalls
    /\ LET r == slide(This, p)
       IN  Becomes(r.self) /\ ret' = r.ret
    /\ op' = "slide"
    /\ arg' = p
    /\ calls' = calls + 1
    /\ pc' = pc
    /\ UNCHANGED <<puzzleDisplay, timeouts, alerted>>

Next ==
    \/ \E n \in Sizes : ChangeSize(n)
    \/ Randomize
    \/ \E p \in 0..(size * size - 1) : Slide(p)

Spec == Init /\ [][Next]_vars

-----------------------------------------------------------------------------
(* randomize() pass by pass: the do-while loop runs until solvable() is true *)

\* puzzle.randomize() is called and reaches the do
RandomizeCall ==
    /\ pc = "idle"
    /\ calls < MaxCalls
    /\ size \in ShuffleSizes
    /\ pc' = "do"
    /\ op' = "randomize"
    /\ arg' = Undefined
    /\ ret' = Undefined
    /\ calls' = calls + 1
    /\ UNCHANGED <<variant, size, board, solvedBoard, _blank_val, _blank_x, _blank_y>>
    /\ UNCHANGED <<puzzleDisplay, timeouts, alerted>>

\* the loop body of randomize() on each board of the sizes that are explored
\* pass by pass: the puzzles it can leave, one for each sequence of draws
PassResults ==
    [v \in Variants |->
       [n \in ShuffleSizes |->
          [b \in Permutations(0..(n * n - 1)) |->
             {randomizeBody([Puzzle(v, n) EXCEPT !.board = b], Draws(n * n, code)) :
                code \in DrawCodes(n * n)}]]]

\* the puzzles the pass that is about to run can leave
Passes == IF pc = "do" THEN PassResults[variant][size][board] ELSE {}

\* one pass of the loop body, which leaves puzzle s
RandomizePass(s) ==
    /\ pc = "do"
    /\ Becomes(s)
    /\ pc' = "while"
    /\ UNCHANGED <<op, arg, ret, calls, puzzleDisplay, timeouts, alerted>>

\* the loop test: while (!this.solvable())
RandomizeTest ==
    /\ pc = "while"
    /\ pc' = IF solvable(This) THEN "idle" ELSE "do"
    /\ UNCHANGED <<variant, size, board, solvedBoard, _blank_val, _blank_x, _blank_y,
                   op, arg, ret, calls, puzzleDisplay, timeouts, alerted>>

NextSteps ==
    \/ \E n \in Sizes : ChangeSize(n)
    \/ RandomizeCall
    \/ \E s \in Passes : RandomizePass(s)
    \/ RandomizeTest

\* a pass whose draws make a board that the loop test accepts
AcceptedPass ==
    \E s \in Passes : solvable(s) /\ RandomizePass(s)

\* the loop test is reached after each pass, and Math.random() does not avoid
\* for ever the draws that make a board on which solvable() is true
SpecSteps ==
    Init /\ [][NextSteps]_vars /\ WF_vars(RandomizeTest) /\ SF_vars(AcceptedPass)

-----------------------------------------------------------------------------
(* calls whose arguments the code does not check: new Puzzle(n) for any
   integer n, slide(p) for p one row before or after the board *)

\* the positions of the row before the first row and of the row after the last
OutTargets == ((-size)..(-1)) \cup ((size * size)..(size * size + size - 1))

\* slide(p), p outside the board; the calls on the board it leaves are not explored
SlideOutside(p) ==
    /\ size > 0
    /\ calls = MaxCalls - 1
    /\ Slide(p)

NextAnyInput ==
    \/ \E n \in AnySizes : ChangeSize(n)
    \/ Randomize
    \/ \E p \in 0..(size * size - 1) : Slide(p)
    \/ \E p \in OutTargets : SlideOutside(p)

SpecAnyInput == Init /\ [][NextAnyInput]_vars

-----------------------------------------------------------------------------
(* the board as the claims describe it *)

\* the cell that holds the blank
BlankPos == CHOOSE k \in DOMAIN board : board[k] = size * size - 1

Row(p) == p \div size

Col(p) == p % size

Abs(d) == IF d < 0 THEN -d ELSE d

\* same row and neighbouring column, or same column and neighbouring row
OrthAdjacent(p, q) ==
    \/ Row(p) = Row(q) /\ Abs(Col(p) - Col(q)) = 1
    \/ Col(p) = Col(q) /\ Abs(Row(p) - Row(q)) = 1

\* p is on the row or on the column of q, and is not q
OnLine(p, q) == p # q /\ (Row(p) = Row(q) \/ Col(p) = Col(q))

\* a target the move model of the running version refuses, the blank being at b
Illegal(p, b) ==
    IF Caches(variant) THEN ~OrthAdjacent(p, b) ELSE ~OnLine(p, b)

\* the step is a call of slide
SlideStep == op' = "slide" /\ calls' = calls + 1

-----------------------------------------------------------------------------
\* C1: after construction and after every randomize() and slide(p), the board
\* has size*size cells and holds every integer of 0..size*size-1 exactly once
C1_BoardIsPermutation ==
    /\ DOMAIN board = 0..(size * size - 1)
    /\ \A v \in 0..(size * size - 1) :
          Cardinality({k \in DOMAIN board : board[k] = v}) = 1

\* a slide has moved a tile on a board that is no longer the solved one
C1_Witness ==
    /\ op = "slide" /\ ret = TRUE
    /\ calls >= 2
    /\ board # keys(size * size)

\* C2: slide(p) on a target that is illegal under the move model returns false
\* and leaves the board and the cached coordinates of the blank as they were
C2_IllegalSlideChangesNothing ==
    [][(SlideStep /\ Illegal(arg', BlankPos))
          => /\ ret' = FALSE
             /\ board' = board
             /\ _blank_x' = _blank_x
             /\ _blank_y' = _blank_y]_vars

\* slide was refused on a shuffled or slid board
C2_Witness ==
    /\ op = "slide" /\ ret = FALSE
    /\ Illegal(arg, BlankPos)
    /\ board # keys(size * size)

\* C3: in fifteen.js and part_000, slide(p) returns true exactly when p is
\* orthogonally adjacent to the blank, and then the board is the old one with
\* the values at p and at the blank's cell swapped
C3_AdjacentSlide ==
    [][(SlideStep /\ Caches(variant))
          => /\ ret' = OrthAdjacent(arg', BlankPos)
             /\ ret' => board' = [board EXCEPT ![arg'] = board[BlankPos],
                                               ![BlankPos] = board[arg']]]_vars

\* a tile next to the blank was slid on a 3x3 board
C3_Witness ==
    /\ Caches(variant) /\ size = 3
    /\ op = "slide" /\ ret = TRUE
    /\ OrthAdjacent(arg, 8)

\* the cells from i to b on their common row or column
Segment(i, b) ==
    {c \in 0..(size * size - 1) :
        /\ IF i < b THEN i <= c /\ c <= b ELSE b <= c /\ c <= i
        /\ Row(i) = Row(b) \/ Col(c) = Col(b)}

\* one cell from i towards b
Toward(i, b) ==
    (IF Row(i) = Row(b) THEN 1 ELSE size) * (IF i < b THEN 1 ELSE -1)

\* C4: in part_001, slide(i) returns true exactly when i is on the row or the
\* column of the blank and is not the blank; then every tile from i up to the
\* blank's cell b moves one cell towards b, the blank ends at i, and the cells
\* outside the segment are unchanged
C4_ChainSlide ==
    [][(SlideStep /\ ~Caches(variant))
          => /\ ret' = OnLine(arg', BlankPos)
             /\ ret' => board' =
                   [c \in 0..(size * size - 1) |->
                      IF c = arg' THEN size * size - 1
                      ELSE IF c \in Segment(arg', BlankPos)
                           THEN board[c - Toward(arg', BlankPos)]
                           ELSE board[c]]]_vars

\* slide(2) on the solved 3x3 board: the tiles of cells 2 and 5 moved down
C4_Witness ==
    /\ variant = "part_001" /\ size = 3
    /\ op = "slide" /\ arg = 2 /\ ret = TRUE /\ calls = 1
    /\ board = [keys(9) EXCEPT ![2] = 8, ![5] = 2, ![8] = 5]

\* the puzzle with the blank's coordinates read off its board
Recached(self) ==
    IF Caches(self.variant)
    THEN [self EXCEPT !._blank_x = _x(self, _blank_i(self)),
                      !._blank_y = _y(self, _blank_i(self))]
    ELSE self

\* C5: when randomize() returns, solvable() is true, also with the blank's row
\* taken from the final board
C5_RandomizeLeavesSolvable ==
    op = "randomize" => solvable(This) /\ solvable(Recached(This))

\* randomize() returned with the blank moved out of the last cell
C5_Witness ==
    /\ op = "randomize"
    /\ BlankPos # size * size - 1
    /\ size = 2

\* sizes whose boards are all searched for a way to the solved board
SolveSizes == {2}

\* the puzzle of version v and size n when its board is b
PuzzleOn(v, n, b) == Recached([Puzzle(v, n) EXCEPT !.board = b])

\* every arrangement of the n*n cells
AllBoards(n) ==
    {b \in [0..(n * n - 1) -> 0..(n * n - 1)] :
        \A j, k \in 0..(n * n - 1) : b[j] = b[k] => j = k}

RECURSIVE SlidesInto(_, _, _)
\* the boards from which some sequence of successful slides leads into `into`
SlidesInto(v, n, into) ==
    LET more == {b \in AllBoards(n) \ into :
                   \E p \in 0..(n * n - 1) :
                      LET r == slide(PuzzleOn(v, n, b), p)
                      IN  r.ret /\ r.self.board \in into}
    IN  IF more = {} THEN into ELSE SlidesInto(v, n, into \cup more)

C7_CachedBlank ==
    Caches(variant) => board[_i(This, _blank_x, _blank_y)] = _blank_val

\* randomize() moved the blank and the cache followed
C7_Witness ==
    /\ Caches(variant)
    /\ op = "randomize"
    /\ BlankPos # size * size - 1
    /\ _i(This, _blank_x, _blank_y) = BlankPos

\* the puzzles solvable() is called on: the current one, and the ones the
\* first pass of a randomize() called on a new puzzle makes of it
SolvableInputs ==
    {This} \cup
    (IF op = "new" /\ size \in ShuffleSizes \cup FirstShuffleSizes
     THEN {randomizeBody(This, Draws(size * size, code)) :
             code \in SampleCodes(size * size, MaxProbes)}
     ELSE {})

\* the row of the blank of a puzzle, read off its board
BlankRow(self) == indexOf(self.board, self.size * self.size - 1) \div self.size

\* C8 as stated: for even size, solvable() is true iff (size-1-y is odd) equals
\* (inversions() is even), y being the row of the blank
C8_Original ==
    size % 2 = 0 =>
        \A s \in SolvableInputs :
            solvable(s) <=> (((size - 1 - BlankRow(s)) % 2 = 1)
                               <=> (inversions(s) % 2 = 0))

\* C8 amended: for even size, solvable() is true iff (size-y is odd) equals
\* (inversions() is even): the rows are counted from the bottom starting at 1
C8_Amended ==
    size % 2 = 0 =>
        \A s \in SolvableInputs :
            solvable(s) <=> (((size - BlankRow(s)) % 2 = 1)
                               <=> (inversions(s) % 2 = 0))

\* on a 2x2 board solvable() is asked about boards of both kinds, the blank
\* being on the top row in one of them
C8_Witness ==
    /\ size = 2
    /\ \E s \in SolvableInputs : solvable(s) /\ BlankRow(s) = 0
    /\ \E s \in SolvableInputs : ~solvable(s)

\* C9: for odd size, solvable() is true iff inversions() is even, wherever the
\* blank is
C9_OddSize ==
    size % 2 = 1 =>
        \A s \in SolvableInputs : solvable(s) <=> (inversions(s) % 2 = 0)

\* on a 3x3 board solvable() is asked about boards of both kinds, the blank
\* being on rows of both parities
C9_Witness ==
    /\ size = 3
    /\ \E s \in SolvableInputs : solvable(s) /\ BlankRow(s) % 2 = 1
    /\ \E s \in SolvableInputs : solvable(s) /\ BlankRow(s) % 2 = 0
    /\ \E s \in SolvableInputs : ~solvable(s)

\* C10: the board of a new puzzle has 0 inversions and solvable() is true of it
C10_NewIsSolvable ==
    op = "new" => inversions(This) = 0 /\ solvable(This)

\* a new 4x4 puzzle
C10_Witness ==
    op = "new" /\ size = 4 /\ calls = 0 /\ board = keys(16)

-----------------------------------------------------------------------------
\* C11: a puzzle that has just been constructed holds 0, 1, ..., size*size-1 in
\* this order, its blank value size*size-1 is in the last cell, and solved()
\* is true of it.
C11_NewIsSolved ==
    op = "new" =>
        /\ DOMAIN board = 0..(size * size - 1)
        /\ \A k \in DOMAIN board : board[k] = k
        /\ _blank_val = size * size - 1
        /\ board[size * size - 1] = _blank_val
        /\ solved(This)

\* a new 3x3 puzzle
C11_Witness ==
    op = "new" /\ size = 3 /\ board = keys(9) /\ solved(This) /\ calls = 0

-----------------------------------------------------------------------------
\* the pairs of cells i < j that hold two tiles, the larger tile first
TilePairsOutOfOrder(self) ==
    {pair \in (DOMAIN self.board) \X (DOMAIN self.board) :
        /\ pair[1] < pair[2]
        /\ self.board[pair[2]] < self.board[pair[1]]
        /\ self.board[pair[1]] # self.size * self.size - 1
        /\ self.board[pair[2]] # self.size * self.size - 1}

\* C12: on every permutation board inversions() is the number of pairs of
\* cells i < j with board[j] < board[i] where neither cell holds the blank.
C12_InversionsCountsTilePairs ==
    \A s \in SolvableInputs : inversions(s) = Cardinality(TilePairsOutOfOrder(s))

\* a board where the blank precedes tiles and two tiles are out of order
C12_Witness ==
    /\ op = "randomize"
    /\ BlankPos < size * size - 1
    /\ inversions(This) > 0
    /\ Cardinality(TilePairsOutOfOrder(This)) = inversions(This)

-----------------------------------------------------------------------------
\* the sizes whose boards are all counted
CountSizes == {2, 3}

\* the permutations of 0..n*n-1
Boards(n) == Permutations(0..(n * n - 1))

\* C13: of all the permutations of 0..size*size-1 (enumerated for sizes 2 and
\* 3), solvable() is true on exactly half and false on the other half.
C13_HalfAreSolvable ==
    (op = "new" /\ size \in CountSizes) =>
        LET all == Cardinality(Boards(size))
            yes == Cardinality({b \in Boards(size) :
                                  solvable(PuzzleOn(variant, size, b))})
            no  == all - yes
        IN  /\ all = Factorial(size * size)
            /\ 2 * yes = Factorial(size * size)
            /\ 2 * no = Factorial(size * size)

\* a new 3x3 puzzle of the chain-slide version, whose 9! boards are counted;
\* two of them are told apart by solvable()
C13_Witness ==
    /\ op = "new" /\ size = 3 /\ variant = "part_001"
    /\ solvable(PuzzleOn(variant, size, keys(9)))
    /\ ~solvable(PuzzleOn(variant, size, _swap(keys(9), 0, 1)))

-----------------------------------------------------------------------------
\* C14: on every reachable board solved() is true exactly when every cell k
\* holds the value k.
C14_SolvedIffIdentity ==
    solved(This) <=> (\A k \in 0..(size * size - 1) : board[k] = k)

\* a tile was slid away and back: the board is solved again after two slides
C14_Witness ==
    op = "slide" /\ ret = TRUE /\ calls = 2 /\ solved(This) /\ board = keys(size * size)

-----------------------------------------------------------------------------
\* C15: constructing a puzzle with a size below 2 fails, so that no puzzle of
\* size 1, 0 or less exists. The constructor has no such test: under
\* SpecAnyInput changeSize(1), changeSize(0) and changeSize(-1) each leave a
\* puzzle of that size, and this is violated.
C15_NoPuzzleBelowTwo ==
    size >= 2

-----------------------------------------------------------------------------
\* C16: slide(p) with p outside 0..size*size-1 fails and never modifies the
\* board: it writes no cell outside the board and leaves the board a
\* permutation. The code tests only the computed column and row: under
\* SpecAnyInput a p one row off the board in line with the blank succeeds,
\* and this is violated.
C16_OutsideSlideChangesNothing ==
    (op = "slide" /\ arg \notin 0..(size * size - 1)) =>
        /\ ret # TRUE
        /\ DOMAIN board = 0..(size * size - 1)
        /\ \A v \in 0..(size * size - 1) : \E k \in DOMAIN board : board[k] = v

-----------------------------------------------------------------------------
\* C17: the conversions are inverse of each other: _i(_x(p), _y(p)) = p for
\* every position p of the board, and _x(_i(x, y)) = x, _y(_i(x, y)) = y for
\* every column x and row y of the board.
C17_CoordRoundTrip ==
    /\ \A p \in 0..(size * size - 1) :
          /\ _x(This, p) \in 0..(size - 1)
          /\ _y(This, p) \in 0..(size - 1)
          /\ _i(This, _x(This, p), _y(This, p)) = p
    /\ \A x \in 0..(size - 1), y \in 0..(size - 1) :
          /\ _i(This, x, y) \in 0..(size * size - 1)
          /\ _x(This, _i(This, x, y)) = x
          /\ _y(This, _i(This, x, y)) = y

\* slide(7) on a 4x4 board converted 7 to column 3, row 1
C17_Witness ==
    /\ op = "slide" /\ size = 4 /\ arg = 7
    /\ _x(This, arg) = 3 /\ _y(This, arg) = 1 /\ _i(This, 3, 1) = arg

-----------------------------------------------------------------------------
\* the positions p for which slide(p) succeeds on puzzle self
LegalTargets(self) ==
    {p \in 0..(self.size * self.size - 1) : slide(self, p).ret = TRUE}

\* C18: no lock-out. In every reachable state slide(p) succeeds for at least
\* one position p, every slide that succeeds changes the board, and every
\* slide that succeeds on a solved board leaves a board that is not solved.
C18_NoLockOut ==
    pc = "idle" =>
        /\ LegalTargets(This) # {}
        /\ \A p \in LegalTargets(This) :
              /\ slide(This, p).self.board # board
              /\ solved(This) => ~solved(slide(This, p).self)

\* the chain-slide version has moved the bottom row of the solved 4x4 board
C18_Witness ==
    /\ variant = "part_001" /\ size = 4
    /\ op = "slide" /\ arg = 12 /\ ret = TRUE /\ calls = 1
    /\ ~solved(This)
    /\ LegalTargets(This) # {}

-----------------------------------------------------------------------------
\* each shuffle of the board that a pass of randomize() can make takes as
\* many iterations as the board has cells
ShuffleEndsAfterLength ==
    pc = "do" =>
        \A code \in DrawCodes(length(board)) :
            shuffleIterations(board, Draws(length(board), code)) = length(board)

\* C19: randomize() terminates. Each shuffle inside it ends after exactly
\* arr.length iterations, and, the random draws being fair, the loop
\* eventually draws a board on which solvable() is true and the call returns.
C19_RandomizeTerminates ==
    /\ [](ShuffleEndsAfterLength)
    /\ (pc # "idle") ~> (pc = "idle")

\* the loop test has rejected a board and the loop body runs again
C19_Witness ==
    pc = "do" /\ op = "randomize" /\ ~solvable(This) /\ size \in ShuffleSizes

-----------------------------------------------------------------------------
\* arr.slice(0, k)
slice(arr, k) == [m \in 0..(k - 1) |-> arr[m]]

\* the arrays shuffled: the first k cells of the board, k up to MaxShuffleLen
ShuffleInputs ==
    {slice(board, k) : k \in {m \in 0..MaxShuffleLen : m <= length(board)}}

\* the sequences of random indexes one shuffle of n cells can draw: the index
\* drawn with k cells left is in 0..k-1
DrawSeqs(n) == {Draws(n, code) : code \in DrawCodes(n)}

\* what shuffle(arr) can return
ShuffleResults(arr) ==
    {shuffle(arr, draws) : draws \in DrawSeqs(length(arr))}

\* the arrays that hold the values of arr in some order
Arrangements(arr) ==
    {[m \in DOMAIN arr |-> arr[q[m]]] : q \in Permutations(DOMAIN arr)}

\* C20: shuffle(arr) on k distinct values always returns a permutation of
\* them, can return each of the k! permutations, and returns each for exactly
\* one sequence of random index choices: there are k! such sequences, and as
\* many different results as sequences.
C20_ShuffleIsUniform ==
    (pc = "do" \/ op = "new") =>
        \A arr \in ShuffleInputs :
            LET k == length(arr)
            IN  /\ \A draws \in DrawSeqs(k) :
                      \A j \in 1..k : draws[j] \in 0..(k - j)
                /\ Cardinality(DrawSeqs(k)) = Factorial(k)
                /\ ShuffleResults(arr) = Arrangements(arr)
                /\ Cardinality(ShuffleResults(arr)) = Cardinality(DrawSeqs(k))

\* randomize() is about to shuffle a 2x2 board that is not in order; one of
\* the draw sequences returns it reversed
C20_Witness ==
    /\ pc = "do" /\ size = 2 /\ board # keys(4)
    /\ [m \in 0..3 |-> board[3 - m]] \in ShuffleResults(board)

-----------------------------------------------------------------------------
(* slide(p) on boards given in advance: every board of a 2x2 puzzle, and on
   the larger puzzles the solved board, boards a shuffle makes, and boards
   that differ from these by one exchange of two tiles *)

\* the array [e0, e1, ...]
Array(elems) == [k \in 0..(Len(elems) - 1) |-> elems[k + 1]]

\* arr with the values of cells j and k exchanged
Exchanged(arr, j, k) == [arr EXCEPT ![j] = arr[k], ![k] = arr[j]]

\* how many shuffles of the 3x3 board are among the given boards
MaxGiven == 12

GivenBoards(n) ==
    IF n = 2 THEN Boards(2)
    ELSE IF n = 3
    THEN LET shuffled == {shuffle(keys(9), Draws(9, code)) :
                             code \in SampleCodes(9, MaxGiven)}
         IN  shuffled
             \cup {Exchanged(b, 0, 1) : b \in shuffled}
             \cup {keys(9), Exchanged(keys(9), 0, 1),
                   Array(<<1, 2, 0, 3, 4, 5, 6, 7, 8>>),
                   Array(<<0, 1, 2, 3, 4, 5, 8, 6, 7>>)}
    ELSE {keys(n * n), Exchanged(keys(n * n), 0, 1),
          Exchanged(keys(n * n), n * n - 3, n * n - 2),
          Exchanged(keys(n * n), n * n - 2, n * n - 1),
          Exchanged(keys(n * n), 0, n * n - 1)}

\* a puzzle of version v whose board is one of the given boards
InitAnyBoard ==
    \E v \in Variants, n \in Sizes :
        \E b \in GivenBoards(n) :
            /\ variant = v
            /\ size = n
            /\ board = b
            /\ solvedBoard = PuzzleOn(v, n, b).solvedBoard
            /\ _blank_val = PuzzleOn(v, n, b)._blank_val
            /\ _blank_x = PuzzleOn(v, n, b)._blank_x
            /\ _blank_y = PuzzleOn(v, n, b)._blank_y
            /\ op = "given"
            /\ arg = n
            /\ ret = Undefined
            /\ calls = 0
            /\ pc = "idle"
            /\ puzzleDisplay =
                  LET fresh == FreshDisplays[v][n]["redWhiteStyle"]
                  IN  IF Caches(v) THEN decorate(fresh, PuzzleOn(v, n, b))
                      ELSE updateDisplay(fresh, PuzzleOn(v, n, b))
            /\ timeouts = 0
            /\ alerted = FALSE

NextAnyBoard == \E p \in 0..(size * size - 1) : Slide(p)

SpecAnyBoard == InitAnyBoard /\ [][NextAnyBoard]_vars

-----------------------------------------------------------------------------
-----------------------------------------------------------------------------
(* the program as its user drives it: clicks on the elements of the frame, the
   display's randomize() and changeStyle(), changeSize(n), and the callbacks
   that setTimeout has queued *)

\* the versions whose move() hands the alert to setTimeout
Defers(v) == v \in {"part_000", "part_001"}

\* callbacks that may wait at the same time
MaxTimeouts == 2

\* clicks and calls of the display's methods since the display was built
MaxGestures == 2

\* the display becomes d
DisplayBecomes(d) == puzzleDisplay' = d

\* a click on the k-th child of the frame: its onclick handler runs move()
Click(k) ==
    /\ pc = "idle"
    /\ calls < MaxGestures
    /\ timeouts < MaxTimeouts
    /\ LET e == puzzleDisplay.puzzleFrame[k]
           r == onclick(puzzleDisplay, This, e)
       IN  /\ Becomes(r.self)
           /\ DisplayBecomes(r.display)
           /\ arg' = IF Caches(variant) THEN puzzleDisplay.divs[e].data_id
                     ELSE puzzleDisplay.divs[e].style.order
           /\ ret' = r.ret
           /\ timeouts' = IF r.won /\ Defers(variant) THEN timeouts + 1 ELSE timeouts
           /\ alerted' = (r.won /\ ~Defers(variant))
    /\ op' = "move"
    /\ calls' = calls + 1
    /\ pc' = pc

\* puzzleDisplay.randomize()
DisplayRandomize ==
    /\ pc = "idle"
    /\ calls < MaxGestures
    /\ size \in ShuffleSizes
    /\ \E r \in displayRandomize(puzzleDisplay, This) :
          Becomes(r.self) /\ DisplayBecomes(r.display)
    /\ op' = "randomize"
    /\ arg' = Undefined
    /\ ret' = Undefined
    /\ calls' = calls + 1
    /\ pc' = pc
    /\ timeouts' = timeouts
    /\ alerted' = FALSE

\* puzzleDisplay.changeStyle(name)
ChangeStyle(name) ==
    /\ pc = "idle"
    /\ calls < MaxGestures
    /\ DisplayBecomes(changeStyle(puzzleDisplay, This, name))
    /\ op' = "changeStyle"
    /\ arg' = name
    /\ ret' = Undefined
    /\ calls' = calls + 1
    /\ pc' = pc
    /\ timeouts' = timeouts
    /\ alerted' = FALSE
    /\ UNCHANGED <<variant, size, board, solvedBoard, _blank_val, _blank_x, _blank_y>>

\* a callback of setTimeout runs: () => alert(...)
Timeout ==
    /\ pc = "idle"
    /\ timeouts > 0
    /\ timeouts' = timeouts - 1
    /\ alerted' = TRUE
    /\ op' = "timeout"
    /\ arg' = Undefined
    /\ ret' = Undefined
    /\ UNCHANGED <<variant, size, board, solvedBoard, _blank_val, _blank_x, _blank_y,
                   calls, pc, puzzleDisplay>>

\* the methods of Puzzle that only answer, with the arguments they are called
\* with: the cells of the board, the coordinates of the cells
Queries(self) ==
    {<<"solvable", Undefined>>, <<"inversions", Undefined>>, <<"solved", Undefined>>}
    \cup {<<"_x", a>> : a \in DOMAIN self.board}
    \cup {<<"_y", a>> : a \in DOMAIN self.board}
    \cup {<<"_i", <<x, y>>>> : x, y \in 0..(self.size - 1)}
    \cup (IF Caches(self.variant) THEN {} ELSE {<<"_blank_i", Undefined>>})

\* mutant: inversions() takes the blank out of this.board before it counts
query_inversionsSplices(self, name, a) ==
    [self |-> IF name = "inversions"
              THEN [self EXCEPT
                      !.board = splice(self.board, indexOf(self.board, self._blank_val))]
              ELSE self,
     ret |-> CASE name = "solvable" -> solvable(self)
               [] name = "inversions" -> inversions(self)
               [] name = "solved" -> solved(self)
               [] name = "_x" -> _x(self, a)
               [] name = "_y" -> _y(self, a)
               [] name = "_i" -> _i(self, a[1], a[2])
               [] name = "_blank_i" -> _blank_i(self)]

\* the call of one of these methods: none of them assigns to a field of the
\* puzzle or calls a method of its arrays that changes the array (map, filter,
\* reduce, every, indexOf, slice and keys make new values)
query(self, name, a) ==
    [self |-> self,
     ret |-> CASE name = "solvable" -> solvable(self)
               [] name = "inversions" -> inversions(self)
               [] name = "solved" -> solved(self)
               [] name = "_x" -> _x(self, a)
               [] name = "_y" -> _y(self, a)
               [] name = "_i" -> _i(self, a[1], a[2])
               [] name = "_blank_i" -> _blank_i(self)]

\* one of these methods is called once the gestures are made
Query(name, a) ==
    /\ pc = "idle"
    /\ calls = MaxGestures
    /\ LET r == query(This, name, a)
       IN  Becomes(r.self) /\ ret' = r.ret
    /\ op' = name
    /\ arg' = a
    /\ calls' = calls + 1
    /\ pc' = pc
    /\ alerted' = FALSE
    /\ UNCHANGED <<puzzleDisplay, timeouts>>

\* the calls of these methods that are explored in the current state
QueriesNow == IF pc = "idle" /\ calls = MaxGestures THEN Queries(This) ELSE {}

NextDisplay ==
    \/ \E n \in Sizes : ChangeSize(n)
    \/ \E k \in 1..Len(puzzleDisplay.puzzleFrame) : Click(k)
    \/ DisplayRandomize
    \/ \E name \in Styles : ChangeStyle(name)
    \/ Timeout
    \/ \E q \in QueriesNow : Query(q[1], q[2])

SpecDisplay == Init /\ [][NextDisplay]_vars

\* C21 as the specification states it: on the 3x3 board [1,2,0,3,4,5,6,7,8] of
\* the adjacent-only model, slide(1) succeeds and yields [1,0,2,3,4,5,6,7,8],
\* and slide(0) on that board succeeds and yields the solved board
C21_Original ==
    [][(SlideStep /\ Caches(variant) /\ size = 3)
          => /\ (board = Array(<<1, 2, 0, 3, 4, 5, 6, 7, 8>>) /\ arg' = 1)
                   => /\ ret' = TRUE
                      /\ board' = Array(<<1, 0, 2, 3, 4, 5, 6, 7, 8>>)
             /\ (board = Array(<<1, 0, 2, 3, 4, 5, 6, 7, 8>>) /\ arg' = 0)
                   => /\ ret' = TRUE
                      /\ board' = keys(9)
                      /\ solved(This)']_vars

\* C21: on the 3x3 board [0,1,2,3,4,5,8,6,7] of the adjacent-only model, where
\* the blank (value 8) is at position 6, slide(7) succeeds and yields
\* [0,1,2,3,4,5,6,8,7]; slide(8) on that board succeeds and yields
\* [0,1,2,3,4,5,6,7,8], and solved() is then true
C21_Amended ==
    [][(SlideStep /\ Caches(variant) /\ size = 3)
          => /\ (board = Array(<<0, 1, 2, 3, 4, 5, 8, 6, 7>>) /\ arg' = 7)
                   => /\ ret' = TRUE
                      /\ board' = Array(<<0, 1, 2, 3, 4, 5, 6, 8, 7>>)
             /\ (board = Array(<<0, 1, 2, 3, 4, 5, 6, 8, 7>>) /\ arg' = 8)
                   => /\ ret' = TRUE
                      /\ board' = keys(9)
                      /\ solved(This)']_vars

\* the second slide of the scenario has just solved the 3x3 puzzle
C21_Witness ==
    /\ Caches(variant) /\ size = 3
    /\ op = "slide" /\ arg = 8 /\ ret = TRUE /\ calls = 2
    /\ board = keys(9)
    /\ _blank_x = 2 /\ _blank_y = 2

RECURSIVE SlidBoards(_, _, _, _)
\* the boards that at most k calls of slide make of the boards of `from`
SlidBoards(v, n, from, k) ==
    IF k = 0 THEN from
    ELSE SlidBoards(v, n,
                    from \cup {slide(PuzzleOn(v, n, b), p).self.board :
                                  b \in from, p \in 0..(n * n - 1)},
                    k - 1)

\* C23: a successful slide(p) leaves solvable() as it was, true or false, in
\* both move models and for odd and even sizes; so every board reached from
\* the solved board by slides satisfies solvable()
C23_SlideKeepsSolvability ==
    /\ [][(SlideStep /\ ret' = TRUE) => (solvable(This)' = solvable(This))]_vars
    /\ [](solved(This) =>
            \A b \in SlidBoards(variant, size, {board}, MaxCalls) :
                solvable(PuzzleOn(variant, size, b)))

\* a chain slide has moved tiles on a 4x4 board on which solvable() is false
C23_Witness ==
    /\ variant = "part_001" /\ size = 4
    /\ op = "slide" /\ ret = TRUE /\ calls >= 2
    /\ ~solvable(This)
    /\ BlankPos \notin {14, 15}

RECURSIVE slideEach(_, _, _, _)
\* slide(id) of fifteen.js called on the cells from..to, `step` apart, one
\* after the other; ret tells whether every call returned true
slideEach(self, from, to, step) ==
    LET r == slide_adjacent(self, from)
    IN  IF ~r.ret THEN r
        ELSE IF from = to THEN r
        ELSE slideEach(r.self, from + step, to, step)

\* the boards reached from the solved board by successful slides of version v
SlidesFrom(v, n) == SlidesInto(v, n, {keys(n * n)})

\* C27: on every board, for every cell i on the row or the column of the blank
\* (not the blank's own cell), slide(i) of part_001 returns true and yields the
\* board that the slide(id) of fifteen.js yields when it is called, with
\* success each time, on the cells from the blank's neighbour out to i; and a
\* successful slide of fifteen.js is a successful slide of part_001 with the
\* same board, so that both reach the same boards from the solved board
C27_ChainIsAdjacentRepeated ==
    LET chain == PuzzleOn("part_001", size, board)
        adjacent == PuzzleOn("fifteen.js", size, board)
    IN  /\ \A i \in 0..(size * size - 1) :
              OnLine(i, BlankPos) =>
                 LET step == -Toward(i, BlankPos)
                     each == slideEach(adjacent, BlankPos + step, i, step)
                 IN  /\ slide_chain(chain, i).ret
                     /\ each.ret
                     /\ slide_chain(chain, i).self.board = each.self.board
        /\ \A i \in 0..(size * size - 1) :
              slide_adjacent(adjacent, i).ret =>
                 /\ slide_chain(chain, i).ret
                 /\ slide_chain(chain, i).self.board
                       = slide_adjacent(adjacent, i).self.board
        /\ (size \in SolveSizes /\ calls = 0) =>
              SlidesFrom("part_001", size) = SlidesFrom("fifteen.js", size)

\* a 4x4 board, reached by a slide, whose blank is in the corner: the chain
\* slides of the cells three away on its row and on its column are legal
C27_Witness ==
    /\ size = 4
    /\ op = "slide" /\ ret = TRUE
    /\ BlankPos = 0
    /\ slide_chain(PuzzleOn("part_001", size, board), 3).ret
    /\ slide_chain(PuzzleOn("part_001", size, board), 12).ret

\* C28: when slide(p) succeeds with the blank at cell b, slide(b) called next
\* succeeds too and leaves the board, and the cached coordinates of the blank,
\* as they were before slide(p), in both move models
C28_SlideBackRestores ==
    \A p \in 0..(size * size - 1) :
        LET r == slide(This, p)
            back == slide(r.self, BlankPos)
        IN  r.ret => /\ r.self.board # board
                     /\ back.ret
                     /\ back.self = This

\* a slide has taken place on a 4x4 board whose blank is not on the border, so
\* that slides in the four directions can be taken back
C28_Witness ==
    /\ size = 4
    /\ op = "slide" /\ ret = TRUE
    /\ BlankPos \in {5, 6, 9, 10}
    /\ \A p \in {BlankPos - 4, BlankPos - 1, BlankPos + 1, BlankPos + 4} :
          slide(This, p).ret

\* what is seen of element e: its class, its text and its style
Shown(tileDiv) ==
    [className |-> tileDiv.className, textContent |-> tileDiv.textContent,
     style |-> tileDiv.style]

\* what is seen of a new element that the current style function has styled as
\* piece `tile`, or that has the style of the blank
StyledAs(tile, height) ==
    LET styled == IF tile = size * size - 1
                  THEN [createElement EXCEPT !.className = "square blank"]
                  ELSE styleSpecifier(puzzleDisplay.styleSpecifier, tile,
                                      createElement, TILE_WIDTH, This)
    IN  Shown([styled EXCEPT !.style.height = height, !.style.width = height])

\* C24: in fifteen.js and part_000, after any clicks, randomize() and
\* changeStyle() calls of the display, for every position p squares[p] is the
\* p-th child of the frame, its id is "square" + p and its data-id p, a click on
\* it does what slide(p) does, and it is decorated as the piece board[p] (as
\* the blank exactly when board[p] is the blank value)
C24_DisplayShowsBoard ==
    (Caches(variant) /\ pc = "idle") =>
        /\ DOMAIN puzzleDisplay.squares = DOMAIN board
        /\ Len(puzzleDisplay.puzzleFrame) = size * size
        /\ \A p \in DOMAIN board :
              LET e == puzzleDisplay.squares[p]
                  tileDiv == puzzleDisplay.divs[e]
                  clicked == onclick(puzzleDisplay, This, e)
              IN  /\ puzzleDisplay.puzzleFrame[p + 1] = e
                  /\ tileDiv.id = "square" \o String(p)
                  /\ tileDiv.data_id = String(p)
                  /\ clicked.ret = slide(This, p).ret
                  /\ clicked.self = slide(This, p).self
                  /\ Shown(tileDiv) = StyledAs(board[p], Percent(size))
                  /\ (tileDiv.className = "square blank") <=> (board[p] = size * size - 1)

\* two clicks have moved two tiles of a 3x3 puzzle whose style was changed
C24_Witness ==
    /\ Caches(variant) /\ size = 3
    /\ op = "move" /\ ret = TRUE /\ calls = 2
    /\ puzzleDisplay.styleSpecifier # "redWhiteStyle"
    /\ Cardinality({p \in DOMAIN board : board[p] # p}) = 3

\* C26: in part_001, after any clicks and randomize() calls of the display, for
\* every piece v the container squares[v] has style.order equal to the index of
\* v in puzzle.board; so the orders are a permutation of 0..size*size-1, and a
\* click on the container shown at position p does what slide(p) does
C26_OrderShowsBoard ==
    (variant = "part_001" /\ pc = "idle") =>
        /\ DOMAIN puzzleDisplay.squares = DOMAIN board
        /\ \A v \in DOMAIN board :
              puzzleDisplay.divs[puzzleDisplay.squares[v]].style.order
                 = String(indexOf(board, v))
        /\ \A p \in DOMAIN board :
              Cardinality({e \in DOMAIN puzzleDisplay.divs :
                              puzzleDisplay.divs[e].style.order = String(p)}) = 1
        /\ \A e \in DOMAIN puzzleDisplay.divs :
              LET p == Number(puzzleDisplay.divs[e].style.order)
                  clicked == onclick(puzzleDisplay, This, e)
              IN  /\ clicked.ret = slide(This, p).ret
                  /\ clicked.self = slide(This, p).self

\* a click has slid two tiles at once on a 3x3 puzzle of part_001
C26_Witness ==
    /\ variant = "part_001" /\ size = 3
    /\ op = "move" /\ ret = TRUE
    /\ Cardinality({p \in DOMAIN board : board[p] # p}) >= 3
    /\ puzzleDisplay.divs[puzzleDisplay.squares[8]].style.order # "8"

\* a field of the puzzle that the claim names has another value after the step
PuzzleChanges ==
    <<board, size, _blank_val, _blank_x, _blank_y>>'
        # <<board, size, _blank_val, _blank_x, _blank_y>>

\* C22: the board, the size, the blank value and the cached coordinates of the
\* blank change only in randomize() and in a slide that succeeds (changeSize
\* makes a new puzzle): solvable(), inversions(), solved(), _x, _y, _i and
\* _blank_i, and decorate() and changeStyle() with each of the style
\* functions, leave them as they are
C22_OnlyShuffleAndSlideMutate ==
    [][PuzzleChanges => \/ op' = "randomize"
                        \/ op' = "new"
                        \/ op' = "move" /\ ret' = TRUE]_vars

\* inversions() has answered on a board that is not in order, after
\* changeStyle() decorated the display with another style function
C22_Witness ==
    /\ op = "inversions" /\ ret > 0
    /\ puzzleDisplay.styleSpecifier = "image2Style"
    /\ board # keys(size * size)

\* the step is a click, and it asks for the win notification exactly when its
\* slide returned true and left solved() true; a randomize() never asks for it
RaisedBySolvingMoveOnly ==
    /\ (op' = "move" /\ calls' = calls + 1) =>
          ((alerted' \/ timeouts' = timeouts + 1) <=> (ret' = TRUE /\ solved(This)'))
    /\ (op' = "move" /\ calls' = calls + 1) => ~(alerted' /\ timeouts' = timeouts + 1)
    /\ (op' = "randomize" /\ calls' = calls + 1) => (~alerted' /\ timeouts' = timeouts)

\* when a deferred alert fires, solved() is true
SolvedWhenAlertFires ==
    (op' = "timeout" /\ timeouts' = timeouts - 1) => (alerted' /\ solved(This)')

\* C25: the win notification is raised for exactly the clicks whose slide
\* succeeded and left solved() true, never by a failed slide, by a slide that
\* leaves the board unsolved or by randomize(); and where the alert is deferred
\* with setTimeout, the puzzle is still solved when the alert fires, whatever
\* clicks were handled in between
C25_WinNotification ==
    [][RaisedBySolvingMoveOnly /\ SolvedWhenAlertFires]_vars

====
